---- MODULE Spec2Model ----
(***************************************************************************)
(* Model of the HOTP security-token application                            *)
(* (examples/tutorials/hotp/hotp_oracle_complete/main.c) and of the        *)
(* blocking bridge libtocksync_alarm_yield_for_with_timeout                *)
(* (libtock-sync/services/alarm.c).                                        *)
(*                                                                         *)
(* The application is one thread of control.  Its position is pc; the      *)
(* kernel delivers upcalls only while the thread is suspended in yield.    *)
(* The backing key-value store survives power loss, the memory does not:   *)
(* a run that stops in any state is a power loss there, and the boot that  *)
(* follows is a run from Init on the store that was left behind.           *)
(***************************************************************************)
EXTENDS Integers, Sequences, FiniteSets, TLC

\* ------------------------------------------------------------------------
\* Program constants
\* ------------------------------------------------------------------------

\* main.c:36  #define NUM_KEYS 4
NUM_KEYS == 4

Slots == 0 .. (NUM_KEYS - 1)

\* Button indices the driver can report: every slot and one index past the
\* keys array (a board with more buttons than NUM_KEYS).
Buttons == 0 .. NUM_KEYS

\* counter_t is uint64_t (main.c:45).  The counters of the model stay below
\* 2^31, far below 2^64, so the increment is modelled without wrap-around.

\* sizeof(counter_t) (main.c:45, main.c:305)
SizeofCounter == 8

\* main.c:43  int key_digits[NUM_KEYS] = {6, 6, 7, 8};
key_digits == [s \in 0 .. (NUM_KEYS - 1) |-> CASE s = 0 -> 6 [] s = 1 -> 6 [] s = 2 -> 7 [] OTHER -> 8]

\* main.c:311  HMAC_OUTPUT_BUF_LEN
HMAC_OUTPUT_BUF_LEN == 32

\* main.c:331  char hotp_format_buffer[16]
FormatBufferSize == 16

\* ------------------------------------------------------------------------
\* Bounds of the model
\* ------------------------------------------------------------------------

\* press-down events that wake the main loop in one run
MaxPresses == 1

\* press-down events delivered while the thread is suspended elsewhere than
\* in the wait of the main loop, in one run
MaxLate == 1

\* failures of the environment in one run: a kv_set_sync that fails, an
\* encrypt, decrypt or HMAC driver call that returns an error, a failing USB
\* send, a failing button subscription
MaxFaults == 1

\* blocking calls made by the caller of the bridge in one run
MaxCalls == 3

\* ------------------------------------------------------------------------
\* Values
\* ------------------------------------------------------------------------

\* The secret programmed by program_default_secret (main.c:247).
default_secret == <<"t", "e", "s", "t">>

\* Lines the user can type in program_new_secret: nothing (abort), a valid
\* base32 secret, a valid base32 character too short to hold a byte (it
\* decodes to 0 bytes), a secret with a character outside the base32
\* alphabet.
UserInputs == { <<>>, <<"M", "Q">>, <<"M">>, <<"9">> }

Secrets == (UserInputs \ {<<>>}) \cup {default_secret}

\* Initialization vectors the cipher can draw.
IVs == {1, 2}

\* Ciphertext of plaintext pt under iv; the zero ciphertext is NoCipher.
Cipher(pt, iv) == [pt |-> pt, iv |-> iv]

NoCipher == [pt |-> <<>>, iv |-> 0]

\* hotp_key_t (main.c:47-52): len, iv, key (ciphertext), counter
ZeroKey == [len |-> 0, iv |-> 0, key |-> NoCipher, counter |-> 0]

\* What the store holds under "hotp-key-<i>": nothing, a value whose length
\* is not sizeof(hotp_key_t), or a value of that length.
Absent == [kind |-> "absent", val |-> ZeroKey]

BadLen == [kind |-> "badlen", val |-> ZeroKey]

Stored(k) == [kind |-> "rec", val |-> k]

\* A record left by an earlier run: slot programmed, one code generated.
UsedKey == [len |-> 1, iv |-> 1, key |-> Cipher(<<"M", "Q">>, 1), counter |-> 1]

InitialStoreValues == {Absent, BadLen, Stored(ZeroKey), Stored(UsedKey)}

\* Contents of the memory behind the keys array before the program has
\* stored there, read as a hotp_key_t.
OutOfBoundsKeys == {ZeroKey, UsedKey}

\* 0x01010100: an iv of the model stands for 16 bytes of that value, so the
\* bytes iv[0..2] read as the three high bytes of a little-endian int are
\* this many times the iv.
IvBytesAsInt == 16843008

\* What reached the output sink in the current flow: the slot, the counter
\* value the code was computed from, the sink, and whether the digest the
\* code was cut from is the HMAC of that counter or stale buffer contents.
NoEmit == [slot |-> -1, c |-> -1, sink |-> "none", digest |-> "none", code |-> <<>>]

\* A 32-byte buffer with last byte last, the four bytes b at the offset the
\* low nibble of the last byte names, and 0xAA everywhere else.
MakeDigest(last, b) ==
  [i \in 0 .. (HMAC_OUTPUT_BUF_LEN - 1) |->
     IF i = HMAC_OUTPUT_BUF_LEN - 1 THEN last
     ELSE IF i >= (last % 16) /\ i <= (last % 16) + 3 THEN b[i - (last % 16) + 1]
     ELSE 170]

\* Buffer contents the truncation is checked on: every offset, the high
\* nibble of the last byte clear or set, the top bit of the first byte clear
\* or set, values with few and with many decimal digits.
Digests ==
  { MakeDigest(hi + off, <<b0, b1, b2, b3>>) :
      hi \in {0, 240}, off \in 0 .. 15,
      b0 \in {0, 127, 128, 255}, b1 \in {0, 1, 255},
      b2 \in {0, 4, 255}, b3 \in {0, 210, 255} }

\* The buffer of the example of RFC 4226: offset 10, bytes 50 ef 7f 19.
ExampleDigest == MakeDigest(90, <<80, 239, 127, 25>>)

\* Digests the HMAC engine can deliver into the destination buffer.
EngineDigests == {ExampleDigest}

\* A byte of indeterminate value: the value of an object with automatic
\* storage that has not been written.  It stands for every value 0..255.
UninitByte == -1

\* The output buffer of get_next_code before anything is written to it
\* (main.c:312 declares it without an initializer): every byte is whatever
\* the stack held there.
UninitBuffer == [i \in 0 .. (HMAC_OUTPUT_BUF_LEN - 1) |-> UninitByte]

\* The result of arithmetic on an indeterminate byte, and the character of
\* a decimal digit printed from it.
Indeterminate == -1

IndeterminateDigit == "?"

\* Error codes a driver call can return (returncode_t, negative).
ErrorCodes == {-1, -2}

\* First argument of the alarm upcall as yield_wait_for hands it back
\* (alarm.c:40): 0, an error code, or a positive number such as the time at
\* which the alarm fired.
UpcallData0 == {0, 5, 1654784} \cup ErrorCodes

\* ------------------------------------------------------------------------
\* State
\* ------------------------------------------------------------------------

VARIABLES
  pc,               \* position of the thread of control
  keys,             \* hotp_key_t keys[NUM_KEYS]                (main.c:55)
  store,            \* the key-value store, by slot index of "hotp-key-<i>"
  pressed_btn_num,  \* global set by button_upcall              (main.c:62)
  button_pressed,   \* main's flag handed to button_upcall      (main.c:374)
  btn_num,          \* main's local copy of pressed_btn_num     (main.c:385)
  bootI,            \* loop index i of initialize_keys          (main.c:124)
  bootRead,         \* per slot, what kv_get_sync found at this boot
  hmac_done,        \* hmac's local completion flag             (main.c:165)
  hmac_ret,         \* hmac's local ret                         (main.c:164)
  hmac_label,       \* the cleanup label hmac jumps to          (main.c:200-212)
  hmac_caller,      \* who called hmac: "gnc" or "bridge"
  bind,             \* kernel side of the HMAC driver: upcall and buffers
  engine,           \* HMAC engine: "idle", "running", "finished"
  digest,           \* hmac_output_buf: "stale" or "hmac"       (main.c:312)
  hmac_output_buf,  \* the buffer as get_next_code reads it at main.c:320
  moving_factor,    \* uint8_t moving_factor[sizeof(counter_t)]  (main.c:305)
  keylen,           \* result of decrypt in get_next_code       (main.c:301)
  writes,           \* kv_set_sync calls issued by the current flow
  emitted,          \* what the current flow handed to the output sink
  report,           \* diagnostic printed by the current flow
  new_val,          \* main's sample of the button level      (main.c:389)
  oob,              \* an index outside 0..NUM_KEYS-1 was used on keys
  presses,          \* press-down events delivered so far
  late,             \* those of them delivered elsewhere than in main's wait
  wakes,            \* returns of main's yield_for so far        (main.c:384)
  flows,            \* flow outcomes run so far: program, generate, "not configured" (main.c:393-403)
  faults,           \* failures of the environment so far
  budget,           \* what the environment of the run may do: waking presses,
                    \* late presses, failures
  fault,            \* the call of the environment that failed last in this flow
  write_failed,     \* a kv_set_sync has failed since the start of the run
  secret,           \* the secret handed to program_secret    (main.c:218)
  usb_exists,       \* driver_exists(DRIVER_NUM_USBKEYBOARDHID) on this board
  cond,             \* bridge: the caller's condition flag       (alarm.c:58)
  fired,            \* yf_timeout_data.fired                     (alarm.c:50)
  alarm,            \* bridge: the alarm of the call: "none", "armed", "expired", "cancelled"
  alarm_id,         \* bridge: the call whose alarm the local handle names (alarm.c:60)
  pending,          \* alarms armed and neither expired nor cancelled, by arming call
  yf_ret,           \* bridge: result of the last call: "none", "SUCCESS", "FAIL"
  ms,               \* argument of libtocksync_alarm_delay_ms   (alarm.c:33)
  frequency,        \* alarm frequency the driver reports, in Hz (alarm.c:19)
  ticks,            \* ticks the delay was armed with           (alarm.c:35)
  rc,               \* what libtocksync_alarm_delay_ms returned  (alarm.c:34)
  calls             \* bridge: calls made so far

envVars == <<faults, fault, write_failed>>

vars == <<pc, keys, store, pressed_btn_num, button_pressed, btn_num, bootI, bootRead,
          hmac_done, hmac_ret, hmac_label, hmac_caller, bind, engine, digest,
          hmac_output_buf, moving_factor, keylen, writes, emitted, report, new_val, oob, presses, late, wakes, flows,
          budget, faults, fault, write_failed, secret, usb_exists, cond, fired, alarm,
          alarm_id, pending,
          yf_ret, ms, frequency, ticks, rc, calls>>

NoBind == [cb |-> FALSE, key |-> FALSE, dest |-> FALSE, data |-> FALSE]

\* The environment of a run: the press-down events that may wake the main
\* loop, those that may arrive while a press is being handled, the calls
\* that may fail.
Budget(p, l, f) == [presses |-> p, late |-> l, faults |-> f]

\* ------------------------------------------------------------------------
\* Helpers of the application
\* ------------------------------------------------------------------------

\* The blocking calls of libtock (printf, getch, putnstr, kv_set_sync,
\* encrypt, decrypt, usb_keyboard_hid_send_string_sync) suspend the thread in
\* yield until their own upcall arrives, and the kernel runs button_upcall
\* (main.c:67-75) for every press-down event that arrives meanwhile.  What
\* was delivered inside the blocking calls of one step: n press-down events,
\* the last of them of button num.
NoPress == [n |-> 0, num |-> -1]

Delivered ==
  {NoPress} \cup
  { [n |-> k, num |-> b] : k \in 1 .. (budget.late - late), b \in Buttons }

\* pressed_btn_num after these events, p being its value before (main.c:72).
AfterPresses(e, p) ==
  IF e.n > 0 THEN e.num ELSE p

\* The flag handed to button_upcall after these events (main.c:73).
FlagAfterPresses(e, flag) ==
  flag \/ e.n > 0

\* The events are counted as presses that did not arrive in main's wait.
CountPresses(e) ==
  /\ presses' = presses + e.n
  /\ late' = late + e.n

\* base32_decode (base32.c), by its contract as used in program_secret
\* (main.c:221): a negative result for a character outside the alphabet,
\* else the number of whole bytes in 5 bits per character.
Base32Alphabet == {"A", "B", "C", "D", "E", "F", "G", "H", "I", "J", "K", "L", "M",
                   "N", "O", "P", "Q", "R", "S", "T", "U", "V", "W", "X", "Y", "Z",
                   "a", "b", "c", "d", "e", "f", "g", "h", "i", "j", "k", "l", "m",
                   "n", "o", "p", "q", "r", "s", "t", "u", "v", "w", "x", "y", "z",
                   "2", "3", "4", "5", "6", "7"}

base32_decode(str) ==
  IF \E i \in 1 .. Len(str) : str[i] \notin Base32Alphabet
  THEN -1
  ELSE (5 * Len(str)) \div 8

\* x >> n on a 64-bit value x; the values of the model are below 2^31.
Shr(x, n) ==
  IF n >= 31 THEN 0 ELSE x \div (2 ^ n)

\* The moving factor with the least significant byte first.
moving_factor_bytes_little_endian(counter) ==
  [i \in 0 .. (SizeofCounter - 1) |-> Shr(counter, i * 8) % 256]

\* main.c:305-308: moving_factor[i] =
\*   (counter >> ((sizeof(counter_t) - i - 1) * 8)) & 0xFF
moving_factor_bytes(counter) ==
  [i \in 0 .. (SizeofCounter - 1) |->
     Shr(counter, (SizeofCounter - i - 1) * 8) % 256]

\* The moving_factor buffer before get_next_code has filled it.
NoFactor == [i \in 0 .. (SizeofCounter - 1) |-> 0]

\* The number that 8 bytes denote, most significant byte first; the four
\* high bytes of a value below 2^31 are 0.
BytesValue(b) ==
  ((b[4] * 256 + b[5]) * 256 + b[6]) * 256 + b[7]

\* x & y and x | y on unsigned values, bit by bit.
RECURSIVE BitAnd(_, _)
BitAnd(x, y) ==
  IF x = 0 \/ y = 0 THEN 0
  ELSE (x % 2) * (y % 2) + 2 * BitAnd(x \div 2, y \div 2)

RECURSIVE BitOr(_, _)
BitOr(x, y) ==
  IF x = 0 THEN y
  ELSE IF y = 0 THEN x
  ELSE (IF x % 2 = 1 \/ y % 2 = 1 THEN 1 ELSE 0) + 2 * BitOr(x \div 2, y \div 2)

\* x << n; the values shifted here stay below 2^31.
Shl(x, n) ==
  x * (2 ^ n)

\* main.c:320-324: the offset from the low nibble of the last byte, then the
\* 31-bit value S from the four bytes at the offset.
truncate(buf) ==
  IF buf[HMAC_OUTPUT_BUF_LEN - 1] = UninitByte
  THEN Indeterminate
  ELSE
    LET offset == BitAnd(buf[HMAC_OUTPUT_BUF_LEN - 1], 15) IN
    IF \E j \in 0 .. 3 : buf[offset + j] = UninitByte
    THEN Indeterminate
    ELSE BitOr(BitOr(BitOr(Shl(BitAnd(buf[offset], 127), 24),
                           Shl(BitAnd(buf[offset + 1], 255), 16)),
                     Shl(BitAnd(buf[offset + 2], 255), 8)),
               BitAnd(buf[offset + 3], 255))

DecimalDigit == <<"0", "1", "2", "3", "4", "5", "6", "7", "8", "9">>

\* The decimal digits of n, none for n = 0.
RECURSIVE Digits(_)
Digits(n) ==
  IF n = 0 THEN <<>> ELSE Append(Digits(n \div 10), DecimalDigit[(n % 10) + 1])

RECURSIVE Zeros(_)
Zeros(k) ==
  IF k <= 0 THEN <<>> ELSE <<"0">> \o Zeros(k - 1)

\* The conversion "%ld": the digits of n, "0" for n = 0.
printf_ld_no_precision(prec, n) ==
  IF n = 0 THEN <<"0">> ELSE Digits(n)

\* The conversion "%.*ld" of printf for n >= 0: the digits of n with zeros
\* in front up to prec digits.
printf_ld(prec, n) ==
  Zeros(prec - Len(Digits(n))) \o Digits(n)

\* main.c:326-337, 350: S modulo 10^digits, snprintf into the 16-byte buffer
\* (at most 15 characters are kept), len clamped to 0..16; the string handed
\* to the sink is the first len characters of the buffer.  Of an
\* indeterminate S the number of digits is known (S % 10^digits padded to
\* digits characters), the digits are not.
format_code(S, slot_num) ==
  LET digit_count == 10 ^ key_digits[slot_num]
      S2 == S % digit_count
      out == IF S = Indeterminate
             THEN [i \in 1 .. key_digits[slot_num] |-> IndeterminateDigit]
             ELSE printf_ld(key_digits[slot_num], S2)
      len == IF Len(out) > FormatBufferSize THEN FormatBufferSize ELSE Len(out)
      kept == IF Len(out) > FormatBufferSize - 1 THEN FormatBufferSize - 1 ELSE Len(out)
  IN SubSeq(out, 1, IF len < kept THEN len ELSE kept)

\* A call of the environment fails (failed = TRUE) only within the budget.
Fault(call, failed) ==
  /\ failed => faults < budget.faults
  /\ faults' = IF failed THEN faults + 1 ELSE faults
  /\ fault' = IF failed THEN call ELSE fault
  /\ write_failed' = (write_failed \/ (failed /\ call = "kv_set_sync"))

\* One kv_set_sync call: the slot, the value handed over, whether it succeeded.
Write(slot, val, ok) == [slot |-> slot, val |-> val, ok |-> ok]

\* The value memcpy'd from &keys[slot_num] (main.c:111).  For an index past
\* the array this reads the memory behind it: what the program has stored
\* there if k carries it, else whatever lies there.
KeyValues(k, slot_num) ==
  IF slot_num \in DOMAIN k THEN {k[slot_num]} ELSE OutOfBoundsKeys

\* save_key without the kv_set_sync.
save_key_skipped(k, st, w, slot_num) ==
  /\ store' = st
  /\ writes' = w
  /\ UNCHANGED envVars

\* save_key (main.c:104-118) on the array k: kv_set_sync either stores the
\* whole value under the slot's key or fails and leaves the store alone; a
\* failure is printed and not returned.  st, w are the store and write log
\* before the call.
save_key(k, st, w, slot_num) ==
  \E ok \in BOOLEAN, val \in KeyValues(k, slot_num) :
    /\ Fault("kv_set_sync", ~ok)
    /\ store' = IF ok THEN [st EXCEPT ![slot_num] = Stored(val)] ELSE st
    /\ writes' = Append(w, Write(slot_num, val, ok))

\* A store to keys[slot_num] with value v.  A store through an index past the
\* array lands in the memory behind it and leaves the four slots as they
\* are; the result carries that memory under the index used.
PutKey(k, slot_num, v) ==
  IF slot_num \in Slots THEN [k EXCEPT ![slot_num] = v] ELSE (slot_num :> v) @@ k

\* The keys array proper, without the memory behind it.
InArray(k) ==
  [s \in Slots |-> k[s]]

\* pressed_btn_num (main.c:62) after a store of v to keys[slot_num], p being
\* its value before.  The object the linker places behind keys takes the
\* bytes of a store past the array: pressed_btn_num, the next definition,
\* in which case its low byte is v.len and its three high bytes are
\* iv[0..2] once encrypt has written the iv (wrote_iv), or another object,
\* in which case it keeps its value.
Overlaid(p, slot_num, v, wrote_iv) ==
  IF slot_num \in Slots
  THEN {p}
  ELSE {p, (v.len % 256) + (IF wrote_iv THEN IvBytesAsInt * v.iv ELSE (p \div 256) * 256)}

\* The iv left in keys[slot_num] when button_upcall (main.c:70) stores a
\* button number in pressed_btn_num after encrypt has written the iv and
\* pressed_btn_num lies behind the array: its bytes 0..2 are the zero high
\* bytes of the button number, the others those of iv.
ClobberedIv(iv) == 0 - iv

\* The success path of program_secret (main.c:228-242) on slot_num, v being
\* the record it builds and p pressed_btn_num before: the record handed to
\* kv_set_sync (val) and pressed_btn_num afterwards (pbn).  The presses e
\* land before encrypt writes the iv, or after the memcpy of save_key
\* (main.c:108), where the record is v whole; or, past the array with
\* pressed_btn_num behind it, inside encrypt once the iv is written or in the
\* blocking calls up to the store of len (main.c:237), where the press puts
\* the button number over len and iv[0..2], the store of len then replaces
\* the low byte, and a further press inside kv_set_sync or the last printf
\* stores its button number again.
ProgramOutcomes(p, slot_num, v, e) ==
  { [val |-> v, pbn |-> q] :
      q \in Overlaid(AfterPresses(e, p), slot_num, v, TRUE) \cup {AfterPresses(e, p)} }
  \cup
  (IF slot_num \notin Slots /\ e.n > 0
   THEN { [val |-> [v EXCEPT !.iv = ClobberedIv(v.iv)], pbn |-> q] :
            q \in {((e.num \div 256) * 256) + (v.len % 256)}
                  \cup (IF e.n > 1 THEN {e.num} ELSE {}) }
   ELSE {})

\* keys[slot_num] as read by the program; past the array, what lies behind it.
GetKeys(k, slot_num) == KeyValues(k, slot_num)

\* program_secret with the counter cleared on the decode-error path as well.
program_secret_resets_counter(slot_num, secret_in, e) ==
  LET ret == base32_decode(secret_in) IN
  /\ secret' = secret_in
  /\ oob' = (oob \/ slot_num \notin Slots)
  /\ IF ret < 0
     THEN \E old \in GetKeys(keys, slot_num) :
            /\ keys' = InArray(PutKey(keys, slot_num, [old EXCEPT !.len = 0, !.counter = 0]))
            /\ pressed_btn_num' \in
                 Overlaid(AfterPresses(e, pressed_btn_num), slot_num,
                          [old EXCEPT !.len = 0], FALSE)
                 \cup {AfterPresses(e, pressed_btn_num)}
            /\ CountPresses(e)
            /\ report' = "ERROR cannot base32 decode secret"
            /\ UNCHANGED <<store, writes, envVars>>
     ELSE \/ \E iv \in IVs :
               \E o \in ProgramOutcomes(pressed_btn_num, slot_num,
                                        [len |-> ret, iv |-> iv,
                                         key |-> Cipher(secret_in, iv),
                                         counter |-> 0], e) :
               LET k2 == PutKey(keys, slot_num, o.val)
               IN /\ keys' = InArray(k2)
                  /\ pressed_btn_num' = o.pbn
                  /\ CountPresses(e)
                  /\ save_key(k2, store, writes, slot_num)
                  /\ report' = "Programmed"
          \/ \E old \in GetKeys(keys, slot_num) :
               \E iv \in IVs \cup {old.iv} :
                 /\ keys' = InArray(PutKey(keys, slot_num,
                                            [old EXCEPT !.len = 0, !.iv = iv]))
                 /\ pressed_btn_num' \in
                      Overlaid(AfterPresses(e, pressed_btn_num), slot_num,
                               [old EXCEPT !.len = 0, !.iv = iv], iv # old.iv)
                      \cup {AfterPresses(e, pressed_btn_num)}
                 /\ CountPresses(e)
                 /\ report' = "ERROR cannot encrypt key"
                 /\ Fault("encrypt", TRUE)
                 /\ UNCHANGED <<store, writes>>

\* program_secret that saves the slot on the decode-error path as well.
program_secret_saves_on_failure(slot_num, secret_in, e) ==
  LET ret == base32_decode(secret_in) IN
  /\ secret' = secret_in
  /\ oob' = (oob \/ slot_num \notin Slots)
  /\ IF ret < 0
     THEN \E old \in GetKeys(keys, slot_num) :
            LET k2 == PutKey(keys, slot_num, [old EXCEPT !.len = 0]) IN
            /\ keys' = InArray(k2)
            /\ pressed_btn_num' \in
                 Overlaid(AfterPresses(e, pressed_btn_num), slot_num,
                          [old EXCEPT !.len = 0], FALSE)
                 \cup {AfterPresses(e, pressed_btn_num)}
            /\ CountPresses(e)
            /\ report' = "ERROR cannot base32 decode secret"
            /\ save_key(k2, store, writes, slot_num)
     ELSE \/ \E iv \in IVs :
               \E o \in ProgramOutcomes(pressed_btn_num, slot_num,
                                        [len |-> ret, iv |-> iv,
                                         key |-> Cipher(secret_in, iv),
                                         counter |-> 0], e) :
               LET k2 == PutKey(keys, slot_num, o.val)
               IN /\ keys' = InArray(k2)
                  /\ pressed_btn_num' = o.pbn
                  /\ CountPresses(e)
                  /\ save_key(k2, store, writes, slot_num)
                  /\ report' = "Programmed"
          \/ \E old \in GetKeys(keys, slot_num) :
               \E iv \in IVs \cup {old.iv} :
                 /\ keys' = InArray(PutKey(keys, slot_num,
                                            [old EXCEPT !.len = 0, !.iv = iv]))
                 /\ pressed_btn_num' \in
                      Overlaid(AfterPresses(e, pressed_btn_num), slot_num,
                               [old EXCEPT !.len = 0, !.iv = iv], iv # old.iv)
                      \cup {AfterPresses(e, pressed_btn_num)}
                 /\ CountPresses(e)
                 /\ report' = "ERROR cannot encrypt key"
                 /\ Fault("encrypt", TRUE)
                 /\ UNCHANGED <<store, writes>>

\* program_secret (main.c:218-243).  encrypt (oracle.c) is given keys[slot_num].key
\* and keys[slot_num].iv as its output buffers and returns the ciphertext
\* length, equal to the plaintext length (0 for a secret that decodes to no
\* byte: the code tests only ret < 0), or a negative error; on an error the
\* iv buffer may or may not have been written.  For an index past the array
\* the stores land behind it (Overlaid).  e are the press-down events
\* delivered inside the blocking calls of program_new_secret and
\* program_secret (getch, printf, encrypt, kv_set_sync): before the stores,
\* between them or after them (ProgramOutcomes).
program_secret(slot_num, secret_in, e) ==
  LET ret == base32_decode(secret_in) IN
  /\ secret' = secret_in
  /\ oob' = (oob \/ slot_num \notin Slots)
  /\ IF ret < 0
     THEN \E old \in GetKeys(keys, slot_num) :
            /\ keys' = InArray(PutKey(keys, slot_num, [old EXCEPT !.len = 0]))
            /\ pressed_btn_num' \in
                 Overlaid(AfterPresses(e, pressed_btn_num), slot_num,
                          [old EXCEPT !.len = 0], FALSE)
                 \cup {AfterPresses(e, pressed_btn_num)}
            /\ CountPresses(e)
            /\ report' = "ERROR cannot base32 decode secret"
            /\ UNCHANGED <<store, writes, envVars>>
     ELSE \/ \E iv \in IVs :
               \E o \in ProgramOutcomes(pressed_btn_num, slot_num,
                                        [len |-> ret, iv |-> iv,
                                         key |-> Cipher(secret_in, iv),
                                         counter |-> 0], e) :
               LET k2 == PutKey(keys, slot_num, o.val)
               IN /\ keys' = InArray(k2)
                  /\ pressed_btn_num' = o.pbn
                  /\ CountPresses(e)
                  /\ save_key(k2, store, writes, slot_num)
                  /\ report' = "Programmed"
          \/ \E old \in GetKeys(keys, slot_num) :
               \E iv \in IVs \cup {old.iv} :
                 /\ keys' = InArray(PutKey(keys, slot_num,
                                            [old EXCEPT !.len = 0, !.iv = iv]))
                 /\ pressed_btn_num' \in
                      Overlaid(AfterPresses(e, pressed_btn_num), slot_num,
                               [old EXCEPT !.len = 0, !.iv = iv], iv # old.iv)
                      \cup {AfterPresses(e, pressed_btn_num)}
                 /\ CountPresses(e)
                 /\ report' = "ERROR cannot encrypt key"
                 /\ Fault("encrypt", TRUE)
                 /\ UNCHANGED <<store, writes>>

\* The top of main's loop (main.c:381-384): clear the flag, wait for a press.
BackToLoop ==
  /\ pc' = "wait"
  /\ button_pressed' = FALSE

\* ------------------------------------------------------------------------
\* Boot
\* ------------------------------------------------------------------------

\* The loop body of initialize_keys without the save_key of the empty record.
initialize_keys_iter_no_heal ==
  /\ pc = "boot"
  /\ bootI < NUM_KEYS
  /\ LET i == bootI
         got == store[i]
     IN /\ bootRead' = [bootRead EXCEPT ![i] = got.kind]
        /\ IF got.kind # "rec"
           THEN LET k2 == [keys EXCEPT ![i].len = 0] IN
                /\ keys' = k2
                /\ UNCHANGED <<store, writes, envVars>>
                /\ IF i = 0
                   THEN pc' = "boot_default" /\ UNCHANGED bootI
                   ELSE pc' = "boot" /\ bootI' = i + 1
           ELSE /\ keys' = [keys EXCEPT ![i] = got.val]
                /\ pc' = "boot"
                /\ bootI' = i + 1
                /\ UNCHANGED <<store, writes, envVars>>
  /\ UNCHANGED <<pressed_btn_num, button_pressed, btn_num, hmac_done, hmac_ret,
                 hmac_label, hmac_caller, bind, engine, digest, hmac_output_buf,
                 moving_factor, keylen, emitted, report, new_val, oob, presses, late,
                 wakes, flows, budget, secret, usb_exists, cond, fired, alarm, alarm_id,
                 pending, yf_ret, ms, frequency, ticks, rc, calls>>

\* One iteration of the loop of initialize_keys (main.c:124-147), up to the
\* call of program_default_secret.
initialize_keys_iter ==
  /\ pc = "boot"
  /\ bootI < NUM_KEYS
  /\ LET i == bootI
         got == store[i]
     IN /\ bootRead' = [bootRead EXCEPT ![i] = got.kind]
        /\ IF got.kind # "rec"
           THEN LET k2 == [keys EXCEPT ![i].len = 0] IN
                /\ keys' = k2
                /\ save_key(k2, store, writes, i)
                /\ IF i = 0
                   THEN pc' = "boot_default" /\ UNCHANGED bootI
                   ELSE pc' = "boot" /\ bootI' = i + 1
           ELSE /\ keys' = [keys EXCEPT ![i] = got.val]
                /\ pc' = "boot"
                /\ bootI' = i + 1
                /\ UNCHANGED <<store, writes, envVars>>
  /\ UNCHANGED <<pressed_btn_num, button_pressed, btn_num, hmac_done, hmac_ret,
                 hmac_label, hmac_caller, bind, engine, digest, hmac_output_buf,
                 moving_factor, keylen, emitted, report, new_val, oob, presses, late,
                 wakes, flows, budget, secret, usb_exists, cond, fired, alarm, alarm_id,
                 pending, yf_ret, ms, frequency, ticks, rc, calls>>

\* program_default_secret (main.c:245-250), called for slot 0 (main.c:139-141).
program_default_secret ==
  /\ pc = "boot_default"
  /\ program_secret(0, default_secret, NoPress)
  /\ pc' = "boot"
  /\ bootI' = bootI + 1
  /\ UNCHANGED <<button_pressed, btn_num, bootRead, hmac_done, hmac_ret, hmac_label,
                 hmac_caller, bind, engine, digest, hmac_output_buf, moving_factor,
                 keylen, emitted, new_val, wakes, flows, budget, usb_exists, cond, fired,
                 alarm, alarm_id, pending, yf_ret, ms, frequency, ticks, rc, calls>>

\* initialize_buttons (main.c:78-97) and the entry into the main loop
\* (main.c:373-384); a failing subscribe or count ends main (main.c:375-378).
initialize_buttons ==
  /\ pc = "boot"
  /\ bootI = NUM_KEYS
  /\ \E err \in BOOLEAN :
       /\ Fault("button_subscribe", err)
       /\ IF err
          THEN /\ pc' = "exit"
               /\ report' = "ERROR initializing buttons"
               /\ UNCHANGED button_pressed
          ELSE /\ BackToLoop
               /\ UNCHANGED report
  /\ UNCHANGED <<keys, store, pressed_btn_num, btn_num, bootI, bootRead, hmac_done,
                 hmac_ret, hmac_label, hmac_caller, bind, engine, digest,
                 hmac_output_buf, moving_factor, keylen, writes, emitted, new_val, oob,
                 presses, late, wakes, flows, budget, secret, usb_exists, cond, fired,
                 alarm, alarm_id, pending, yf_ret, ms, frequency, ticks, rc, calls>>

\* ------------------------------------------------------------------------
\* Upcalls and the main loop
\* ------------------------------------------------------------------------

\* Positions at which the thread is suspended in yield and the kernel may
\* run an upcall: main's yield_for (main.c:384), the hold delay (main.c:388),
\* getch in program_new_secret (main.c:264), hmac's yield_for (main.c:198),
\* yield in the bridge (alarm.c:68).
YieldPcs == {"wait", "delay", "pns", "hmac_yield", "yf_yield"}

\* yield() of the bridge returns after one upcall has run (alarm.c:68).
AfterUpcall == IF pc = "yf_yield" THEN "yf_loop" ELSE pc

\* The thread is suspended in yield: it is at one of the positions above
\* and the flag its yield_for waits for is not set (once the flag is set
\* yield_for returns without yielding again).
Suspended ==
  /\ pc \in YieldPcs
  /\ ~(pc = "wait" /\ button_pressed)
  /\ ~(pc = "hmac_yield" /\ hmac_done)

\* button_upcall (main.c:67-75)
button_upcall(num, val) ==
  /\ Suspended
  /\ IF val = 1
     THEN /\ IF pc = "wait"
             THEN presses - late < budget.presses /\ late' = late
             ELSE late < budget.late /\ late' = late + 1
          /\ presses' = presses + 1
          /\ pressed_btn_num' = num
          /\ button_pressed' = TRUE
     ELSE UNCHANGED <<presses, late, pressed_btn_num, button_pressed>>
  /\ pc' = AfterUpcall
  /\ UNCHANGED <<keys, store, btn_num, bootI, bootRead, hmac_done, hmac_ret, hmac_label,
                 hmac_caller, bind, engine, digest, hmac_output_buf, moving_factor,
                 keylen, writes, emitted, report, new_val, oob, wakes, flows, budget,
                 faults, fault, write_failed, secret, usb_exists, cond, fired, alarm,
                 alarm_id, pending, yf_ret, ms, frequency, ticks, rc, calls>>

\* yield_for (libtock's tock.c), by its contract:
\* while (!*cond) yield();  -- the caller goes on once the flag is set.
yield_for_returns(flag) == flag

\* main.c:384-385: yield_for(&button_pressed) returns, btn_num is copied.
main_wake ==
  /\ pc = "wait"
  /\ yield_for_returns(button_pressed)
  /\ btn_num' = pressed_btn_num
  /\ wakes' = wakes + 1
  /\ pc' = "delay"
  /\ writes' = <<>>
  /\ emitted' = NoEmit
  /\ report' = "none"
  /\ new_val' = 0
  /\ fault' = "none"
  /\ secret' = <<>>
  /\ UNCHANGED <<keys, store, pressed_btn_num, button_pressed, bootI, bootRead,
                 hmac_done, hmac_ret, hmac_label, hmac_caller, bind, engine, digest,
                 hmac_output_buf, moving_factor, keylen, oob, presses, late, flows,
                 budget, faults, write_failed, usb_exists, cond, fired, alarm, alarm_id,
                 pending, yf_ret, ms, frequency, ticks, rc, calls>>

\* main's dispatch without the test of keys[btn_num].len in the second branch.
main_dispatch_no_len_check ==
  /\ pc = "delay"
  /\ \E v \in {0, 1} :
       /\ new_val' = v
       /\ IF v # 0
          THEN /\ pc' = "pns"
               /\ flows' = flows + 1
               /\ UNCHANGED <<button_pressed, report, oob, presses, late,
                              pressed_btn_num>>
          ELSE IF btn_num < NUM_KEYS
          THEN /\ pc' = "gnc"
               /\ flows' = flows + 1
               /\ UNCHANGED <<button_pressed, report, oob, presses, late,
                              pressed_btn_num>>
          ELSE /\ BackToLoop
               /\ oob' = (oob \/ btn_num \notin Slots)
               /\ \E k \in GetKeys(keys, btn_num), e \in Delivered :
                    /\ k.len # 0 => e = NoPress
                    /\ report' = IF k.len = 0 THEN "slot not yet configured" ELSE "none"
                    /\ flows' = IF k.len = 0 THEN flows + 1 ELSE flows
                    /\ pressed_btn_num' = AfterPresses(e, pressed_btn_num)
                    /\ CountPresses(e)
  /\ UNCHANGED <<keys, store, btn_num, bootI, bootRead, hmac_done, hmac_ret, hmac_label,
                 hmac_caller, bind, engine, digest, hmac_output_buf, moving_factor,
                 keylen, writes, emitted, wakes, budget, faults, fault, write_failed,
                 secret, usb_exists, cond, fired, alarm, alarm_id, pending, yf_ret, ms,
                 frequency, ticks, rc, calls>>

\* main.c:388-403: the delay is over, the button is sampled and one branch
\* is taken.  The third branch reads keys[btn_num] without a range check
\* and prints only when the len read is 0: with another len no outcome
\* runs.  Presses delivered inside its printf set the flag that the top of
\* the loop clears.
main_dispatch ==
  /\ pc = "delay"
  /\ \E v \in {0, 1} :
       /\ new_val' = v
       /\ IF v # 0
          THEN /\ pc' = "pns"
               /\ flows' = flows + 1
               /\ UNCHANGED <<button_pressed, report, oob, presses, late,
                              pressed_btn_num>>
          ELSE IF btn_num < NUM_KEYS /\ keys[btn_num].len > 0
          THEN /\ pc' = "gnc"
               /\ flows' = flows + 1
               /\ UNCHANGED <<button_pressed, report, oob, presses, late,
                              pressed_btn_num>>
          ELSE /\ BackToLoop
               /\ oob' = (oob \/ btn_num \notin Slots)
               /\ \E k \in GetKeys(keys, btn_num), e \in Delivered :
                    /\ k.len # 0 => e = NoPress
                    /\ report' = IF k.len = 0 THEN "slot not yet configured" ELSE "none"
                    /\ flows' = IF k.len = 0 THEN flows + 1 ELSE flows
                    /\ pressed_btn_num' = AfterPresses(e, pressed_btn_num)
                    /\ CountPresses(e)
  /\ UNCHANGED <<keys, store, btn_num, bootI, bootRead, hmac_done, hmac_ret, hmac_label,
                 hmac_caller, bind, engine, digest, hmac_output_buf, moving_factor,
                 keylen, writes, emitted, wakes, budget, faults, fault, write_failed,
                 secret, usb_exists, cond, fired, alarm, alarm_id, pending, yf_ret, ms,
                 frequency, ticks, rc, calls>>

\* program_new_secret (main.c:252-294): the line read is empty (abort) or is
\* handed to program_secret.  Presses delivered while the line is read or
\* inside program_secret set the flag that the top of the loop clears.
program_new_secret ==
  /\ pc = "pns"
  /\ \E newkey \in UserInputs, e \in Delivered :
       IF newkey = <<>>
       THEN /\ report' = "Aborted"
            /\ pressed_btn_num' = AfterPresses(e, pressed_btn_num)
            /\ CountPresses(e)
            /\ UNCHANGED <<keys, store, writes, oob, envVars, secret>>
       ELSE program_secret(btn_num, newkey, e)
  /\ BackToLoop
  /\ UNCHANGED <<btn_num, bootI, bootRead, hmac_done, hmac_ret, hmac_label, hmac_caller,
                 bind, engine, digest, hmac_output_buf, moving_factor, keylen, emitted,
                 new_val, wakes, flows, budget, usb_exists, cond, fired, alarm, alarm_id,
                 pending, yf_ret, ms, frequency, ticks, rc, calls>>

\* ------------------------------------------------------------------------
\* hmac (main.c:162-214)
\* ------------------------------------------------------------------------

\* The setup calls in order (main.c:167-192): 1 hmac_set_callback,
\* 2 hmac_set_key_buffer, 3 hmac_set_dest_buffer, 4 hmac_set_data_buffer,
\* 5 hmac_set_algorithm, 6 hmac_run.  f is the first call that fails, 0 if none.
HmacSteps == {1, 2, 3, 4, 5, 6}

\* What the driver holds for the process once setup stopped at f.
hmac_bound(f) ==
  [cb   |-> (f = 0 \/ f > 1),
   key  |-> (f = 0 \/ f > 2),
   dest |-> (f = 0 \/ f > 3),
   data |-> (f = 0 \/ f > 4)]

\* The jumps of hmac with the failure of hmac_set_dest_buffer sent one label too far.
hmac_goto_skips_key(f) ==
  CASE f = 1 -> "done"
    [] f = 2 -> "deregister_upcall"
    [] f = 3 -> "deregister_upcall"
    [] f = 4 -> "unallow_dest_buffer"
    [] OTHER -> "unallow_data_buffer"

\* The label the failing call jumps to (main.c:168-196).
hmac_goto(f) ==
  CASE f = 1 -> "done"
    [] f = 2 -> "deregister_upcall"
    [] f = 3 -> "unallow_key_buffer"
    [] f = 4 -> "unallow_dest_buffer"
    [] OTHER -> "unallow_data_buffer"

\* The fall-through chain of labels (main.c:200-213): what is still bound
\* after the code from label on has run.
hmac_release(label, b) ==
  CASE label = "unallow_data_buffer" ->
         [b EXCEPT !.data = FALSE, !.dest = FALSE, !.key = FALSE, !.cb = FALSE]
    [] label = "unallow_dest_buffer" ->
         [b EXCEPT !.dest = FALSE, !.key = FALSE, !.cb = FALSE]
    [] label = "unallow_key_buffer" ->
         [b EXCEPT !.key = FALSE, !.cb = FALSE]
    [] label = "deregister_upcall" ->
         [b EXCEPT !.cb = FALSE]
    [] OTHER -> b

\* main.c:164-196: hmac_done = false, then the setup calls up to the first
\* failure or up to a started engine.  A failing hmac_run is printed
\* (main.c:194), a blocking call.
hmac_setup ==
  /\ pc = "hmac_setup"
  /\ hmac_done' = FALSE
  /\ \E f \in {0} \cup HmacSteps :
       /\ Fault("hmac", f # 0)
       /\ bind' = hmac_bound(f)
       /\ hmac_ret' = IF f = 0 THEN 0 ELSE -1
       /\ IF f = 0
          THEN /\ engine' = "running"
               /\ pc' = "hmac_yield"
               /\ UNCHANGED hmac_label
          ELSE /\ engine' = "idle"
               /\ pc' = "hmac_cleanup"
               /\ hmac_label' = hmac_goto(f)
       /\ \E e \in Delivered :
            /\ f # 6 => e = NoPress
            /\ pressed_btn_num' = AfterPresses(e, pressed_btn_num)
            /\ button_pressed' = FlagAfterPresses(e, button_pressed)
            /\ CountPresses(e)
  /\ UNCHANGED <<keys, store, btn_num, bootI, bootRead, hmac_caller, digest,
                 hmac_output_buf, moving_factor, keylen, writes, emitted, report,
                 new_val, oob, wakes, flows, budget, secret, usb_exists, cond, fired,
                 alarm, alarm_id, pending, yf_ret, ms, frequency, ticks, rc, calls>>

\* hmac_upcall (main.c:155-160), run by the kernel when the engine is done;
\* the engine has written the digest into the destination buffer.
hmac_upcall ==
  /\ pc = "hmac_yield"
  /\ engine = "running"
  /\ bind.cb
  /\ hmac_done' = TRUE
  /\ engine' = "idle"
  /\ digest' = IF keylen >= 0 THEN "hmac" ELSE "hmac of a bad key"
  /\ \E d \in EngineDigests : hmac_output_buf' = d
  /\ UNCHANGED <<pc, keys, store, pressed_btn_num, button_pressed, btn_num, bootI,
                 bootRead, hmac_ret, hmac_label, hmac_caller, bind, moving_factor,
                 keylen, writes, emitted, report, new_val, oob, presses, late, wakes,
                 flows, budget, faults, fault, write_failed, secret, usb_exists, cond,
                 fired, alarm, alarm_id, pending, yf_ret, ms, frequency, ticks, rc, calls>>

\* main.c:198: yield_for(&hmac_done) returns and control falls into
\* unallow_data_buffer.
hmac_wake ==
  /\ pc = "hmac_yield"
  /\ yield_for_returns(hmac_done)
  /\ hmac_label' = "unallow_data_buffer"
  /\ pc' = "hmac_cleanup"
  /\ UNCHANGED <<keys, store, pressed_btn_num, button_pressed, btn_num, bootI, bootRead,
                 hmac_done, hmac_ret, hmac_caller, bind, engine, digest, hmac_output_buf,
                 moving_factor, keylen, writes, emitted, report, new_val, oob, presses,
                 late, wakes, flows, budget, faults, fault, write_failed, secret,
                 usb_exists, cond, fired, alarm, alarm_id, pending, yf_ret, ms,
                 frequency, ticks, rc, calls>>

\* main.c:200-213: the releases from hmac_label on, then return ret.
hmac_cleanup ==
  /\ pc = "hmac_cleanup"
  /\ bind' = hmac_release(hmac_label, bind)
  /\ pc' = IF hmac_caller = "gnc" THEN "gnc_save" ELSE "bridge"
  /\ UNCHANGED <<keys, store, pressed_btn_num, button_pressed, btn_num, bootI, bootRead,
                 hmac_done, hmac_ret, hmac_label, hmac_caller, engine, digest,
                 hmac_output_buf, moving_factor, keylen, writes, emitted, report,
                 new_val, oob, presses, late, wakes, flows, budget, faults, fault,
                 write_failed, secret, usb_exists, cond, fired, alarm, alarm_id, pending,
                 yf_ret, ms, frequency, ticks, rc, calls>>

\* ------------------------------------------------------------------------
\* get_next_code (main.c:296-356)
\* ------------------------------------------------------------------------

\* main.c:297-313: decrypt (its result is not checked; a blocking call), the
\* moving factor from the counter, the call of hmac on a fresh output buffer.
gnc_start ==
  /\ pc = "gnc"
  /\ \E failed \in BOOLEAN :
       /\ Fault("decrypt", failed)
       /\ keylen' = IF failed THEN -1 ELSE keys[btn_num].len
  /\ \E e \in Delivered :
       /\ pressed_btn_num' = AfterPresses(e, pressed_btn_num)
       /\ button_pressed' = FlagAfterPresses(e, button_pressed)
       /\ CountPresses(e)
  /\ moving_factor' = moving_factor_bytes(keys[btn_num].counter)
  /\ hmac_output_buf' = UninitBuffer
  /\ digest' = "stale"
  /\ hmac_caller' = "gnc"
  /\ pc' = "hmac_setup"
  /\ UNCHANGED <<keys, store, btn_num, bootI, bootRead, hmac_done, hmac_ret, hmac_label,
                 bind, engine, writes, emitted, report, new_val, oob, wakes, flows,
                 budget, secret, usb_exists, cond, fired, alarm, alarm_id, pending,
                 yf_ret, ms, frequency, ticks, rc, calls>>

\* main.c:315-317: the result of hmac is not looked at; the counter is
\* incremented and the slot saved (kv_set_sync, a blocking call).
gnc_save ==
  /\ pc = "gnc_save"
  /\ LET k2 == [keys EXCEPT ![btn_num].counter = @ + 1] IN
       /\ keys' = k2
       /\ save_key(k2, store, writes, btn_num)
  /\ \E e \in Delivered :
       /\ pressed_btn_num' = AfterPresses(e, pressed_btn_num)
       /\ button_pressed' = FlagAfterPresses(e, button_pressed)
       /\ CountPresses(e)
  /\ pc' = "gnc_emit"
  /\ UNCHANGED <<btn_num, bootI, bootRead, hmac_done, hmac_ret, hmac_label, hmac_caller,
                 bind, engine, digest, hmac_output_buf, moving_factor, keylen, emitted,
                 report, new_val, oob, wakes, flows, budget, secret, usb_exists, cond,
                 fired, alarm, alarm_id, pending, yf_ret, ms, frequency, ticks, rc, calls>>

\* main.c:319-355: the code is cut from hmac_output_buf, formatted and sent to the USB
\* keyboard if that driver exists, else printed on the console.  A failing
\* USB send is reported; the string may or may not have been typed.  The
\* locals of get_next_code and of hmac end with the call.  Presses delivered
\* inside the send or the printf set the flag that the top of the loop clears.
gnc_emit ==
  /\ pc = "gnc_emit"
  /\ \E failed \in BOOLEAN, typed \in BOOLEAN :
       /\ failed => usb_exists
       /\ ~failed => typed
       /\ Fault("usb_keyboard_hid_send_string_sync", failed)
       /\ emitted' = IF typed
                     THEN [slot |-> btn_num, c |-> BytesValue(moving_factor),
                           sink |-> IF usb_exists THEN "usb" ELSE "console",
                           digest |-> digest,
                           code |-> format_code(truncate(hmac_output_buf), btn_num)]
                     ELSE NoEmit
       /\ report' = IF failed
                    THEN "ERROR sending string with USB keyboard HID"
                    ELSE report
  /\ \E e \in Delivered :
       /\ pressed_btn_num' = AfterPresses(e, pressed_btn_num)
       /\ CountPresses(e)
  /\ BackToLoop
  /\ moving_factor' = NoFactor
  /\ keylen' = 0
  /\ digest' = "stale"
  /\ hmac_done' = FALSE
  /\ hmac_ret' = 0
  /\ hmac_label' = "done"
  /\ UNCHANGED <<keys, store, btn_num, bootI, bootRead, hmac_caller, bind, engine,
                 hmac_output_buf, writes, new_val, oob, wakes, flows, budget, secret,
                 usb_exists, cond, fired, alarm, alarm_id, pending, yf_ret, ms,
                 frequency, ticks, rc, calls>>

\* ------------------------------------------------------------------------
\* libtocksync_alarm_yield_for_with_timeout (alarm.c:46-73), driven by a
\* caller that makes one blocking call after the other
\* ------------------------------------------------------------------------

\* The loop of the bridge with an expired timeout taken for the condition.
yf_decide_timeout_is_success(c, f) ==
  IF c \/ f THEN "SUCCESS" ELSE "yield"

\* alarm.c:63-72: one evaluation of the loop head and of the test in the body.
yf_decide(c, f) ==
  IF c THEN "SUCCESS" ELSE IF f THEN "FAIL" ELSE "yield"

\* The bridge without the libtock_alarm_cancel before the successful return.
yf_cancel_missing(p, id) ==
  p

\* libtock_alarm_cancel(&alarm) (alarm.c:71): the alarm is taken out of the
\* pending alarms; its callback will not run.
yf_cancel(p, id) ==
  p \ {id}

\* alarm.c:59-61: clear the shared flag, arm the alarm.  The caller's flag
\* may already be set when the call is made.
yf_call ==
  /\ pc = "bridge"
  /\ calls < MaxCalls
  /\ calls' = calls + 1
  /\ fired' = FALSE
  /\ alarm' = "armed"
  /\ alarm_id' = calls + 1
  /\ pending' = pending \cup {calls + 1}
  /\ yf_ret' = "none"
  /\ \E c \in BOOLEAN : cond' = c
  /\ pc' = "yf_loop"
  /\ UNCHANGED <<keys, store, pressed_btn_num, button_pressed, btn_num, bootI, bootRead,
                 hmac_done, hmac_ret, hmac_label, hmac_caller, bind, engine, digest,
                 hmac_output_buf, moving_factor, keylen, writes, emitted, report,
                 new_val, oob, presses, late, wakes, flows, budget, faults, fault,
                 write_failed, secret, usb_exists, ms, frequency, ticks, rc>>

\* alarm.c:63-72
yf_loop ==
  /\ pc = "yf_loop"
  /\ LET d == yf_decide(cond, fired) IN
       CASE d = "SUCCESS" -> /\ pending' = yf_cancel(pending, alarm_id)
                             /\ alarm' = IF alarm = "armed" /\ alarm_id \notin pending'
                                         THEN "cancelled"
                                         ELSE alarm
                             /\ yf_ret' = "SUCCESS"
                             /\ pc' = "bridge"
         [] d = "FAIL"    -> /\ yf_ret' = "FAIL"
                             /\ pc' = "bridge"
                             /\ UNCHANGED <<alarm, pending>>
         [] OTHER         -> /\ pc' = "yf_yield"
                             /\ UNCHANGED <<alarm, pending, yf_ret>>
  /\ UNCHANGED <<keys, store, pressed_btn_num, button_pressed, btn_num, bootI, bootRead,
                 hmac_done, hmac_ret, hmac_label, hmac_caller, bind, engine, digest,
                 hmac_output_buf, moving_factor, keylen, writes, emitted, report,
                 new_val, oob, presses, late, wakes, flows, budget, faults, fault,
                 write_failed, secret, usb_exists, cond, fired, alarm_id, ms, frequency,
                 ticks, rc, calls>>

\* yf_timeout_cb (alarm.c:52-56): a pending alarm expires while the thread is
\* suspended; an alarm fires once.
yf_timeout_cb ==
  /\ Suspended
  /\ \E id \in pending :
       /\ pending' = pending \ {id}
       /\ alarm' = IF id = alarm_id THEN "expired" ELSE alarm
  /\ fired' = TRUE
  /\ pc' = AfterUpcall
  /\ UNCHANGED <<keys, store, pressed_btn_num, button_pressed, btn_num, bootI, bootRead,
                 hmac_done, hmac_ret, hmac_label, hmac_caller, bind, engine, digest,
                 hmac_output_buf, moving_factor, keylen, writes, emitted, report,
                 new_val, oob, presses, late, wakes, flows, budget, faults, fault,
                 write_failed, secret, usb_exists, cond, alarm_id, yf_ret, ms, frequency,
                 ticks, rc, calls>>

\* The upcall of the operation the caller waits for sets its flag.
cond_upcall ==
  /\ pc = "yf_yield"
  /\ ~cond
  /\ cond' = TRUE
  /\ pc' = AfterUpcall
  /\ UNCHANGED <<keys, store, pressed_btn_num, button_pressed, btn_num, bootI, bootRead,
                 hmac_done, hmac_ret, hmac_label, hmac_caller, bind, engine, digest,
                 hmac_output_buf, moving_factor, keylen, writes, emitted, report,
                 new_val, oob, presses, late, wakes, flows, budget, faults, fault,
                 write_failed, secret, usb_exists, fired, alarm, alarm_id, pending,
                 yf_ret, ms, frequency, ticks, rc, calls>>

\* The caller runs hmac as its blocking call.
bridge_call_hmac ==
  /\ pc = "bridge"
  /\ calls < MaxCalls
  /\ calls' = calls + 1
  /\ hmac_caller' = "bridge"
  /\ digest' = "stale"
  /\ pc' = "hmac_setup"
  /\ UNCHANGED <<keys, store, pressed_btn_num, button_pressed, btn_num, bootI, bootRead,
                 hmac_done, hmac_ret, hmac_label, bind, engine, hmac_output_buf,
                 moving_factor, keylen, writes, emitted, report, new_val, oob, presses,
                 late, wakes, flows, budget, faults, fault, write_failed, secret,
                 usb_exists, cond, fired, alarm, alarm_id, pending, yf_ret, ms,
                 frequency, ticks, rc>>

\* ------------------------------------------------------------------------
\* libtocksync_alarm_delay_ms (alarm.c:15-44)
\* ------------------------------------------------------------------------

\* ms_to_ticks (alarm.c:15-30) for the frequency freq the driver reports.
\* The sums are 64-bit in the code; the inputs of the model keep them below
\* 2^31, so the assert of alarm.c:28 holds.
ms_to_ticks(ms_in, freq) ==
  LET seconds == ms_in \div 10
      leftover_millis == ms_in % 1000
      milliseconds_per_second == 1000
  IN seconds * freq + (leftover_millis * freq) \div milliseconds_per_second

\* alarm.c:35-38: the ticks are computed and the alarm is set; a failing
\* set returns its error at once.
delay_ms_arm ==
  /\ pc = "delay_ms"
  /\ ticks' = ms_to_ticks(ms, frequency)
  /\ \E r \in {0} \cup ErrorCodes :
       /\ Fault("alarm_set_relative", r # 0)
       /\ rc' = r
       /\ pc' = IF r # 0 THEN "delay_returned" ELSE "delay_wait"
  /\ UNCHANGED <<keys, store, pressed_btn_num, button_pressed, btn_num, bootI, bootRead,
                 hmac_done, hmac_ret, hmac_label, hmac_caller, bind, engine, digest,
                 hmac_output_buf, moving_factor, keylen, writes, emitted, report,
                 new_val, oob, presses, late, wakes, flows, budget, secret, usb_exists,
                 cond, fired, alarm, alarm_id, pending, yf_ret, ms, frequency, calls>>

\* alarm.c:40-43: yield_wait_for returns with the upcall of the alarm; a
\* first upcall argument other than 0 is returned, else rc (0 here).
delay_ms_fired ==
  /\ pc = "delay_wait"
  /\ \E data0 \in UpcallData0 :
       rc' = IF data0 # 0 THEN data0 ELSE rc
  /\ pc' = "delay_returned"
  /\ UNCHANGED <<keys, store, pressed_btn_num, button_pressed, btn_num, bootI, bootRead,
                 hmac_done, hmac_ret, hmac_label, hmac_caller, bind, engine, digest,
                 hmac_output_buf, moving_factor, keylen, writes, emitted, report,
                 new_val, oob, presses, late, wakes, flows, budget, faults, fault,
                 write_failed, secret, usb_exists, cond, fired, alarm, alarm_id, pending,
                 yf_ret, ms, frequency, ticks, calls>>

\* ------------------------------------------------------------------------
\* Specifications
\* ------------------------------------------------------------------------

InitCommon ==
  /\ pressed_btn_num = 0
  /\ button_pressed = FALSE
  /\ bootI = 0
  /\ bootRead = [s \in Slots |-> "unread"]
  /\ emitted = NoEmit
  /\ report = "none"
  /\ new_val = 0
  /\ oob = FALSE
  /\ presses = 0
  /\ late = 0
  /\ wakes = 0
  /\ flows = 0
  /\ secret = <<>>
  /\ bind = NoBind
  /\ engine = "idle"
  /\ cond = FALSE
  /\ fired = FALSE
  /\ alarm = "none"
  /\ alarm_id = 0
  /\ pending = {}
  /\ yf_ret = "none"
  /\ ticks = 0
  /\ rc = 0
  /\ calls = 0

\* No flow has run yet: nothing was written, nothing has failed, hmac has
\* not been called.
InitNoFlow ==
  /\ keylen = 0
  /\ writes = <<>>
  /\ faults = 0
  /\ fault = "none"
  /\ write_failed = FALSE
  /\ hmac_done = FALSE
  /\ hmac_ret = 0
  /\ hmac_label = "done"

\* Stores the application can be started on: a fresh device (nothing
\* stored) or a device in use (every slot programmed and used), in both
\* cases with at most one slot in another condition: slot 0, which
\* initialize_keys treats apart (main.c:139), or slot 1, which stands for
\* the slots 1..NUM_KEYS-1 that the code treats alike.
InitialStores ==
  { st \in [Slots -> InitialStoreValues] :
      \E base \in {Absent, Stored(UsedKey)} :
        /\ \A s \in Slots \ {0, 1} : st[s] = base
        /\ st[0] = base \/ st[1] = base }

Init ==
  /\ InitCommon
  /\ InitNoFlow
  /\ budget = Budget(MaxPresses, 0, MaxFaults)
  /\ ms = 0
  /\ frequency = 0
  /\ pc = "boot"
  /\ hmac_output_buf = ExampleDigest
  /\ moving_factor = NoFactor
  /\ digest = "stale"
  /\ keys = [s \in Slots |-> ZeroKey]
  /\ btn_num = 0
  /\ hmac_caller = "gnc"
  /\ usb_exists \in BOOLEAN
  /\ \E st \in InitialStores :
       store = [b \in Buttons |-> IF b \in Slots THEN st[b] ELSE Absent]

Next ==
  \/ initialize_keys_iter
  \/ program_default_secret
  \/ initialize_buttons
  \/ \E num \in Buttons, val \in {0, 1} : button_upcall(num, val)
  \/ main_wake
  \/ main_dispatch
  \/ program_new_secret
  \/ gnc_start
  \/ hmac_setup
  \/ hmac_upcall
  \/ hmac_wake
  \/ hmac_cleanup
  \/ gnc_save
  \/ gnc_emit

Spec == Init /\ [][Next]_vars


\* The application started on a fresh or a used device whose drivers do not
\* fail, with presses that arrive while an earlier press is being handled.
InitPress ==
  /\ InitCommon
  /\ InitNoFlow
  /\ budget = Budget(MaxPresses, MaxLate, 0)
  /\ ms = 0
  /\ frequency = 0
  /\ pc = "boot"
  /\ hmac_output_buf = ExampleDigest
  /\ moving_factor = NoFactor
  /\ digest = "stale"
  /\ keys = [s \in Slots |-> ZeroKey]
  /\ btn_num = 0
  /\ hmac_caller = "gnc"
  /\ usb_exists \in BOOLEAN
  /\ \E st \in InitialStores :
       store = [b \in Buttons |-> IF b \in Slots THEN st[b] ELSE Absent]

SpecPress == InitPress /\ [][Next]_vars

\* The bridge and hmac under a caller that makes blocking calls in a row.
InitBridge ==
  /\ InitCommon
  /\ InitNoFlow
  /\ budget = Budget(0, MaxLate, MaxFaults)
  /\ ms = 0
  /\ frequency = 0
  /\ pc = "bridge"
  /\ hmac_output_buf = ExampleDigest
  /\ moving_factor = NoFactor
  /\ digest = "stale"
  /\ keys = [s \in Slots |-> ZeroKey]
  /\ btn_num = 0
  /\ hmac_caller = "bridge"
  /\ usb_exists = FALSE
  /\ store = [b \in Buttons |-> Absent]

NextBridge ==
  \/ yf_call
  \/ yf_loop
  \/ yf_timeout_cb
  \/ cond_upcall
  \/ bridge_call_hmac
  \/ \E num \in Buttons, val \in {0, 1} : button_upcall(num, val)
  \/ hmac_setup
  \/ hmac_upcall
  \/ hmac_wake
  \/ hmac_cleanup

SpecBridge == InitBridge /\ [][NextBridge]_vars

\* Counter values a slot can have reached: every byte pattern of the low four
\* bytes over {0x00, 0x01, 0xFF}, the top one over {0x00, 0x01, 0x7E}.
CounterValues ==
  { ((b3 * 256 + b2) * 256 + b1) * 256 + b0 :
      b3 \in {0, 1, 126}, b2 \in {0, 1, 255}, b1 \in {0, 1, 255}, b0 \in {0, 1, 255} }

\* get_next_code entered for a configured slot whose counter has any of the
\* values above, the store holding the records of the slots.
InitGenerate ==
  /\ InitCommon
  /\ InitNoFlow
  /\ budget = Budget(0, 0, MaxFaults)
  /\ ms = 0
  /\ frequency = 0
  /\ pc = "gnc"
  /\ hmac_output_buf = ExampleDigest
  /\ moving_factor = NoFactor
  /\ digest = "stale"
  /\ hmac_caller = "gnc"
  /\ usb_exists \in BOOLEAN
  /\ btn_num \in Slots
  /\ \E c \in CounterValues :
       /\ keys = [s \in Slots |-> IF s = btn_num
                                   THEN [UsedKey EXCEPT !.counter = c]
                                   ELSE ZeroKey]
       /\ store = [b \in Buttons |-> IF b \in Slots THEN Stored(keys[b]) ELSE Absent]

NextGenerate ==
  \/ gnc_start
  \/ hmac_setup
  \/ hmac_upcall
  \/ hmac_wake
  \/ hmac_cleanup
  \/ gnc_save
  \/ gnc_emit

SpecGenerate == InitGenerate /\ [][NextGenerate]_vars

\* The thread of control runs whenever it is not suspended: each of its
\* steps up to the return of hmac is taken once it stays possible.  Nothing
\* obliges the HMAC engine to complete: its upcall carries no fairness.
SpecGenerateFair ==
  /\ SpecGenerate
  /\ WF_vars(gnc_start)
  /\ WF_vars(hmac_setup)
  /\ WF_vars(hmac_wake)
  /\ WF_vars(hmac_cleanup)
  /\ WF_vars(gnc_save)

\* First failing setup call of hmac in the states get_next_code is entered
\* at main.c:319 with: none, the first, the last.
CodeHmacFailures == {0, 1, 6}

\* get_next_code at main.c:319 for a slot programmed and used once: decrypt
\* has returned the key length or an error, the moving factor was taken
\* from counter 1, hmac has returned (the buffer holds a digest delivered by
\* the engine or, after a failing setup call or a failing hmac_run, the
\* unwritten stack contents it was declared with at main.c:312), the
\* counter has been incremented to 2 and handed to kv_set_sync, which has
\* stored it or failed.
InitCode ==
  /\ InitCommon
  /\ budget = Budget(0, 0, MaxFaults)
  /\ ms = 0
  /\ frequency = 0
  /\ pc = "gnc_emit"
  /\ hmac_caller = "gnc"
  /\ usb_exists \in BOOLEAN
  /\ btn_num \in Slots
  /\ moving_factor = moving_factor_bytes(1)
  /\ keys = [s \in Slots |-> IF s = btn_num
                              THEN [UsedKey EXCEPT !.counter = 2]
                              ELSE ZeroKey]
  /\ \E decrypt_failed \in BOOLEAN, f \in CodeHmacFailures, ok \in BOOLEAN :
       /\ faults = (IF decrypt_failed THEN 1 ELSE 0) + (IF f # 0 THEN 1 ELSE 0)
                     + (IF ok THEN 0 ELSE 1)
       /\ faults <= budget.faults
       /\ fault = IF ~ok THEN "kv_set_sync"
                  ELSE IF f # 0 THEN "hmac"
                  ELSE IF decrypt_failed THEN "decrypt"
                  ELSE "none"
       /\ write_failed = ~ok
       /\ keylen = IF decrypt_failed THEN -1 ELSE keys[btn_num].len
       /\ IF f = 0
          THEN hmac_output_buf \in Digests
          ELSE hmac_output_buf = UninitBuffer
       /\ hmac_done = (f = 0)
       /\ hmac_ret = IF f = 0 THEN 0 ELSE -1
       /\ hmac_label = IF f = 0 THEN "unallow_data_buffer" ELSE hmac_goto(f)
       /\ digest = IF f # 0 THEN "stale"
                   ELSE IF decrypt_failed THEN "hmac of a bad key"
                   ELSE "hmac"
       /\ writes = <<Write(btn_num, keys[btn_num], ok)>>
       /\ store = [b \in Buttons |->
                     IF b \notin Slots THEN Absent
                     ELSE IF b = btn_num /\ ~ok THEN Stored(UsedKey)
                     ELSE Stored(keys[b])]

NextCode ==
  gnc_emit

SpecCode == InitCode /\ [][NextCode]_vars

\* Delays asked for, in milliseconds, and alarm frequencies, in Hz.
MsValues == (0 .. 20) \cup {99, 100, 500, 999, 1000, 1001, 1500, 2000}

Frequencies == {1, 999, 1000, 16000, 32768}

\* libtocksync_alarm_delay_ms called with any of these.
InitDelay ==
  /\ InitCommon
  /\ InitNoFlow
  /\ budget = Budget(0, 0, MaxFaults)
  /\ pc = "delay_ms"
  /\ ms \in MsValues
  /\ frequency \in Frequencies
  /\ hmac_output_buf = ExampleDigest
  /\ moving_factor = NoFactor
  /\ digest = "stale"
  /\ hmac_caller = "gnc"
  /\ usb_exists = FALSE
  /\ keys = [s \in Slots |-> ZeroKey]
  /\ btn_num = 0
  /\ store = [b \in Buttons |-> Absent]

NextDelay ==
  \/ delay_ms_arm
  \/ delay_ms_fired

SpecDelay == InitDelay /\ [][NextDelay]_vars

\* ------------------------------------------------------------------------
\* Properties
\* ------------------------------------------------------------------------

\* initialize_keys has returned (main.c:149).
BootDone == pc = "boot" /\ bootI = NUM_KEYS

\* The positions from which program_secret is called and the slot it is
\* called for (main.c:248, main.c:292).
ProgramPcs == {"pns", "boot_default"}

ProgramSlot == IF pc = "pns" THEN btn_num ELSE 0

\* kv_get_sync failed or returned a value of the wrong length (main.c:135).
BadRead == {"absent", "badlen"}

ProgramErrors == {"ERROR cannot base32 decode secret", "ERROR cannot encrypt key"}

\* C1: a code computed from counter value c has reached the output sink only
\* if the stored record of that slot holds counter c + 1, also when
\* kv_set_sync fails.
C1_EmittedAfterPersisted ==
  emitted.slot \in Slots =>
    /\ store[emitted.slot].kind = "rec"
    /\ store[emitted.slot].val.counter = emitted.c + 1

\* C2 as stated: after boot a slot's counter changes only by the increment of
\* a get_next_code execution that emits a code, or by the reset of a
\* successful program_secret.
C2_OnlyEmittingGenerationOrProgram ==
  [][ /\ \A s \in Slots :
           (pc # "boot" /\ keys'[s].counter # keys[s].counter) =>
             \/ pc = "gnc_save" /\ s = btn_num
                /\ keys'[s].counter = keys[s].counter + 1
             \/ pc = "pns" /\ s = btn_num /\ report' = "Programmed"
                /\ keys'[s].counter = 0
      /\ (pc = "gnc_emit" /\ pc' # "gnc_emit") => emitted'.slot = btn_num
    ]_vars

\* C2 amended: after boot a slot's counter changes only by the increment of
\* a get_next_code execution on that slot, by exactly 1 and whether or not
\* the code is emitted afterwards, or by the reset to 0 of a successful
\* program_secret on that slot.
C2_CounterChanges ==
  [][ /\ \A s \in Slots :
           (pc # "boot" /\ keys'[s].counter # keys[s].counter) =>
             \/ pc = "gnc_save" /\ s = btn_num
                /\ keys'[s].counter = keys[s].counter + 1
             \/ pc = "pns" /\ s = btn_num /\ report' = "Programmed"
                /\ keys'[s].counter = 0
      /\ (pc = "gnc_save" /\ pc' # "gnc_save") =>
           keys'[btn_num].counter = keys[btn_num].counter + 1
    ]_vars

\* A get_next_code execution has incremented the counter and its USB send
\* has failed without a code typed.
C2_Witness ==
  /\ pc = "wait"
  /\ new_val = 0
  /\ Len(writes) = 1
  /\ keys[btn_num].counter = 2
  /\ emitted = NoEmit
  /\ report = "ERROR sending string with USB keyboard HID"

\* C3: a short press on an unconfigured slot reports the slot as not
\* configured, emits nothing, changes no slot and writes nothing to the store.
C3_UnconfiguredShortPress ==
  [][ ( /\ pc = "delay" /\ pc' # "delay"
        /\ new_val' = 0
        /\ btn_num \in Slots
        /\ keys[btn_num].len = 0 ) =>
      ( /\ pc' = "wait"
        /\ report' = "slot not yet configured"
        /\ emitted' = NoEmit
        /\ keys' = keys
        /\ store' = store
        /\ writes' = <<>> )
    ]_vars

C3_Witness ==
  /\ pc = "wait"
  /\ new_val = 0
  /\ btn_num \in Slots
  /\ keys[btn_num].len = 0
  /\ report = "slot not yet configured"
  /\ presses > 0

\* An empty record of full size was handed to kv_set_sync for slot i.
EmptyWriteIssued(i) ==
  \E n \in 1 .. Len(writes) : writes[n].slot = i /\ writes[n].val = ZeroKey

\* An empty record of full size was handed to kv_set_sync for slot i and
\* the call stored it.
EmptyWritten(i) ==
  \E n \in 1 .. Len(writes) :
    writes[n].slot = i /\ writes[n].val = ZeroKey /\ writes[n].ok

\* C4 as stated: when initialize_keys returns, every slot whose read failed
\* or had the wrong length is unconfigured and an empty record has been
\* written to the store under its key.
C4_EveryBadSlotEndsEmpty ==
  BootDone =>
    \A i \in Slots :
      bootRead[i] \in BadRead => (keys[i].len = 0 /\ EmptyWritten(i))

\* C4 amended: when initialize_keys returns, for every slot whose read
\* failed or had the wrong length a kv_set_sync of an empty record was
\* issued under its key, and the record was written unless a kv_set_sync
\* failed; slots 1..NUM_KEYS-1 are unconfigured; slot 0, when its read
\* failed, has been handed to program_default_secret and is unconfigured
\* exactly if that programming failed.
C4_BadSlotsHealed ==
  BootDone =>
    \A i \in Slots :
      bootRead[i] \in BadRead =>
        /\ EmptyWriteIssued(i)
        /\ ~write_failed => (EmptyWritten(i) /\ (i # 0 => store[i] = Stored(ZeroKey)))
        /\ i # 0 => keys[i].len = 0
        /\ (i = 0 /\ bootRead[i] = "absent") =>
             /\ secret = default_secret
             /\ keys[i].len = 0 <=> report = "ERROR cannot encrypt key"

\* Boot is over on a store without a record for slot 0 and with a record
\* of the wrong length for slot 1: slot 0 holds the default secret, slot 1
\* is empty in memory and in the store.
C4_Witness ==
  /\ BootDone
  /\ bootRead[0] = "absent"
  /\ keys[0].len > 0
  /\ keys[0].key.pt = default_secret
  /\ bootRead[1] = "badlen"
  /\ keys[1].len = 0
  /\ EmptyWritten(1)
  /\ store[1] = Stored(ZeroKey)

\* C5: during boot the default secret is programmed only into slot 0 and
\* only if the store held no record at all for slot 0.
C5_DefaultOnlyOnFreshStore ==
  pc \in {"boot", "boot_default"} =>
    /\ secret = default_secret => bootRead[0] = "absent"
    /\ \A s \in Slots : keys[s].key.pt = default_secret => s = 0

\* C6: when program_secret fails in base32_decode or in encrypt, the slot
\* ends with len = 0, the error is printed and no kv_set_sync is issued.
C6_FailedProgramPersistsNothing ==
  [][ ( /\ pc \in ProgramPcs /\ pc' \notin ProgramPcs
        /\ secret' # <<>>
        /\ (base32_decode(secret') < 0 \/ fault' = "encrypt") ) =>
      ( /\ ProgramSlot \in Slots => keys'[ProgramSlot].len = 0
        /\ report' \in ProgramErrors
        /\ store' = store
        /\ writes' = writes )
    ]_vars

C6_Witness ==
  /\ pc = "wait"
  /\ new_val = 1
  /\ btn_num \in Slots
  /\ report \in ProgramErrors
  /\ keys[btn_num].len = 0
  /\ store[btn_num] = Stored(UsedKey)
  /\ writes = <<>>

\* C7: a program_secret whose decode and encrypt succeed leaves the slot
\* with the new ciphertext and iv, configured (len > 0), counter 0, and
\* issues exactly one kv_set_sync, which carries that complete record; the
\* store then holds either the record it held before or the complete new
\* one.
C7_ProgramWritesWholeRecord ==
  [][ ( /\ pc \in ProgramPcs /\ pc' \notin ProgramPcs
        /\ ProgramSlot \in Slots
        /\ secret' # <<>>
        /\ base32_decode(secret') >= 0
        /\ fault' # "encrypt" ) =>
      LET s == ProgramSlot
          k == keys'[s]
      IN /\ k.len > 0
         /\ k.iv \in IVs
         /\ k.key = Cipher(secret', k.iv)
         /\ k.counter = 0
         /\ Len(writes') = Len(writes) + 1
         /\ writes'[Len(writes')].slot = s
         /\ writes'[Len(writes')].val = k
         /\ store'[s] \in {store[s], Stored(k)}
         /\ \A t \in Buttons \ {s} : store'[t] = store[t]
    ]_vars

\* C8: whenever the main loop waits for a button event, every slot with
\* len = 0 has counter = 0.
C8_UnconfiguredHasZeroCounter ==
  pc = "wait" => \A s \in Slots : keys[s].len = 0 => keys[s].counter = 0

\* C9: outside a call of hmac the HMAC driver holds no buffer and no upcall
\* of the process: every exit path of hmac has released what the call bound.
C9_HmacReleasesAll ==
  pc \notin {"hmac_yield", "hmac_cleanup"} => bind = NoBind

\* hmac has returned through the failure of hmac_set_data_buffer.
C9_Witness ==
  /\ pc = "gnc_save"
  /\ hmac_ret < 0
  /\ hmac_label = "unallow_dest_buffer"
  /\ bind = NoBind

\* C10: libtocksync_alarm_yield_for_with_timeout returns RETURNCODE_SUCCESS
\* only with the condition flag set, and hmac leaves its wait with a
\* non-negative ret only after hmac_upcall has set hmac_done, whatever
\* upcalls are delivered in between.
C10_SuccessMeansCondition ==
  /\ yf_ret = "SUCCESS" => cond
  /\ (pc = "hmac_cleanup" /\ hmac_ret >= 0) => hmac_done

\* Both blocking calls have returned successfully and a button upcall was
\* delivered on the way.
C10_Witness ==
  /\ pc = "bridge"
  /\ yf_ret = "SUCCESS"
  /\ cond
  /\ alarm = "cancelled"
  /\ hmac_done
  /\ hmac_ret = 0
  /\ presses > 0

\* C11: when libtocksync_alarm_yield_for_with_timeout returns, with either
\* result, the alarm armed by that call is not pending; the shared fired flag
\* is clear when a call has armed its alarm; and a call returns the timeout
\* result only if the alarm armed by that same call has fired.
C11_TimeoutIsOwnAlarm ==
  [][ /\ (pc = "yf_loop" /\ pc' = "bridge") => alarm_id \notin pending'
      /\ alarm_id' # alarm_id => (~fired' /\ alarm_id' \in pending')
      /\ (pc = "yf_loop" /\ yf_ret' = "FAIL") => alarm' = "expired"
    ]_vars

\* A call has timed out after an earlier call returned; nothing is pending.
C11_Witness ==
  /\ pc = "bridge"
  /\ yf_ret = "FAIL"
  /\ alarm = "expired"
  /\ alarm_id > 1
  /\ pending = {}

\* C13: the message handed to hmac by get_next_code is 8 bytes, each in
\* 0..255, that denote the slot's counter most significant byte first, the
\* sum of byte[i] * 256^(7-i) being the counter before the increment of that
\* generation.  (The counters of the model are below 2^31: bytes 0..3 are 0
\* and byte 4 is below 128.)
C13_MovingFactorBigEndian ==
  pc \in {"hmac_setup", "hmac_yield", "hmac_cleanup", "gnc_save", "gnc_emit"} =>
    LET c == IF pc = "gnc_emit"
             THEN keys[btn_num].counter - 1
             ELSE keys[btn_num].counter
    IN /\ DOMAIN moving_factor = 0 .. 7
       /\ \A i \in 0 .. 7 : moving_factor[i] \in 0 .. 255
       /\ \A i \in 0 .. 3 : moving_factor[i] = 0
       /\ moving_factor[4] < 128
       /\ moving_factor[4] * 16777216 + moving_factor[5] * 65536
            + moving_factor[6] * 256 + moving_factor[7] = c

\* hmac runs on the message of counter 0x7E0100FF.
C13_Witness ==
  /\ pc = "hmac_yield"
  /\ hmac_caller = "gnc"
  /\ keys[btn_num].counter = 126 * 16777216 + 65536 + 255
  /\ moving_factor[4] = 126
  /\ moving_factor[5] = 1
  /\ moving_factor[6] = 0
  /\ moving_factor[7] = 255

\* The number a string of decimal digits denotes; -1 if a character is not
\* a decimal digit.
RECURSIVE DecimalValue(_)
DecimalValue(str) ==
  IF str = <<>> THEN 0
  ELSE LET hd == DecimalValue(SubSeq(str, 1, Len(str) - 1))
           ch == str[Len(str)]
       IN IF hd < 0 \/ ~(\E v \in 0 .. 9 : DecimalDigit[v + 1] = ch)
          THEN -1
          ELSE 10 * hd + (CHOOSE v \in 0 .. 9 : DecimalDigit[v + 1] = ch)

\* C12: the code get_next_code hands to the sink has exactly d decimal
\* characters, d the digit count of the slot, and denotes T mod 10^d, where
\* offset = digest[31] & 0x0F (so offset + 3 <= 31) and T is the big-endian
\* value of the four bytes at the offset with the top bit cleared.  Where
\* the buffer holds no digest (hmac failed, the bytes are those of the
\* stack), the d characters are the digits of the T of those bytes, which
\* the model carries as indeterminate digits.
C12_CodeIsTruncatedValue ==
  emitted.slot \in Slots =>
    LET d == CASE emitted.slot \in {0, 1} -> 6 [] emitted.slot = 2 -> 7 [] OTHER -> 8
        offset == hmac_output_buf[31] % 16
        T == (hmac_output_buf[offset] % 128) * 16777216
             + hmac_output_buf[offset + 1] * 65536
             + hmac_output_buf[offset + 2] * 256
             + hmac_output_buf[offset + 3]
    IN /\ offset + 3 <= 31
       /\ Len(emitted.code) = d
       /\ IF \E j \in {offset, offset + 1, offset + 2, offset + 3, 31} :
               hmac_output_buf[j] = UninitByte
          THEN \A i \in 1 .. d : emitted.code[i] = IndeterminateDigit
          ELSE DecimalValue(emitted.code) = T % (10 ^ d)

\* The value 1234 has been emitted as "001234" by a 6-digit slot.
C12_Witness ==
  /\ emitted.slot = 0
  /\ hmac_output_buf[31] % 16 = 15
  /\ hmac_output_buf[15] = 128
  /\ hmac_output_buf[17] = 4
  /\ emitted.code = <<"0", "0", "1", "2", "3", "4">>

\* C14: the ticks libtocksync_alarm_delay_ms arms for ms milliseconds differ
\* from the exact value ms * frequency / 1000 by at most the ticks of one
\* millisecond, frequency / 1000 rounded up.
C14_TicksWithinOneMs ==
  pc \in {"delay_wait", "delay_returned"} =>
    LET tol == (frequency + 999) \div 1000
        exact_floor == (ms * frequency) \div 1000
        exact_ceil == (ms * frequency + 999) \div 1000
    IN /\ ticks - tol <= exact_floor
       /\ exact_ceil <= ticks + tol

\* C15: the press that wakes the main loop names the button acted on, a
\* press delivered during the hold delay does not change it, and when the
\* delay is over one sample of the button selects exactly one outcome: the
\* program-new-secret flow if the button is pressed, else the generate-code
\* flow if the button's slot is configured, else the report of an
\* unconfigured slot; the end of the delay is not reported as an error.
C15_OneOutcomePerPress ==
  [][ /\ (pc = "wait" /\ pc' = "delay") => btn_num' = pressed_btn_num
      /\ (pc = "delay" /\ pc' = "delay") => btn_num' = btn_num
      /\ (pc = "delay" /\ pc' # "delay") =>
           /\ btn_num' = btn_num
           /\ report' \in {"none", "slot not yet configured"}
           /\ IF new_val' # 0
              THEN pc' = "pns"
              ELSE IF btn_num \in Slots /\ keys[btn_num].len > 0
              THEN pc' = "gnc"
              ELSE pc' = "wait" /\ report' = "slot not yet configured"
    ]_vars

\* C20: a press-down event delivered while an earlier press is being handled
\* starts no flow: every return of main's wait is that of one press
\* delivered in the wait, every return is followed by exactly one flow
\* outcome (program, generate or the report of an unconfigured slot), and
\* the outcomes never outnumber the presses.
C20_LatePressStartsNoFlow ==
  /\ wakes + (IF pc = "wait" /\ button_pressed THEN 1 ELSE 0) = presses - late
  /\ flows <= wakes
  /\ wakes <= flows + 1
  /\ pc = "wait" => flows = wakes
  /\ flows <= presses

\* C16: when decrypt or hmac has failed in get_next_code, the flow is
\* aborted: nothing reaches the output sink and the main loop waits for the
\* next button event.
C16_FailureAbortsGenerate ==
  [][ (pc = "gnc_emit" /\ (keylen < 0 \/ hmac_ret < 0)) =>
        (emitted' = NoEmit /\ pc' = "wait")
    ]_vars

\* C17: every call of hmac returns, also when the completion upcall of the
\* engine is never delivered after hmac_run succeeded: a call suspended in
\* its wait eventually is back in get_next_code (from where the main loop
\* goes on to wait for button events).
C17_HmacReturns ==
  (pc = "hmac_yield") ~> (pc \in {"gnc_save", "gnc_emit", "wait"})

\* C18: no index outside 0..NUM_KEYS-1 is ever used on the keys array.
C18_KeysIndexInRange ==
  ~oob

\* C19 as stated: provided no kv_set_sync has failed, whenever the main loop
\* waits for a button event the stored record of every slot equals the slot
\* in memory.
C19_StoreEqualsMemory ==
  (pc = "wait" /\ ~write_failed) =>
    \A s \in Slots : store[s] = Stored(keys[s])

\* C19 amended: provided no kv_set_sync has failed, whenever the main loop
\* waits for a button event every slot has a stored record; the record of a
\* configured slot equals the slot in memory, and the record of a slot that
\* is unconfigured in memory has the counter of the slot in memory (after a
\* failed program_secret it is the record stored before, not the slot in
\* memory).
C19_ConfiguredSlotsPersisted ==
  (pc = "wait" /\ ~write_failed) =>
    \A s \in Slots :
      /\ store[s].kind = "rec"
      /\ store[s].val.counter = keys[s].counter
      /\ keys[s].len > 0 => store[s] = Stored(keys[s])

\* After a failed programming the slot is unconfigured in memory while the
\* store keeps the record of before; another slot is configured and stored.
C19_Witness ==
  /\ pc = "wait"
  /\ ~write_failed
  /\ report \in ProgramErrors
  /\ btn_num \in Slots
  /\ keys[btn_num].len = 0
  /\ store[btn_num] = Stored(UsedKey)
  /\ \E s \in Slots : keys[s].len > 0 /\ store[s] = Stored(keys[s])

====
